---- MODULE Spec2Model ----
(***************************************************************************)
(* pydow: a component framework that renders a tree of Component objects   *)
(* into browser DOM nodes and patches the DOM on every state mutation.     *)
(*                                                                         *)
(* The browser document is modelled as a sequence of elements (the handle  *)
(* of an element is its index); the component tree as nested records.      *)
(* Dom.render is one synchronous pass: it is an operator on a "world"      *)
(* record (document, stores, object counter, log) that every action        *)
(* applies as a whole.                                                     *)
(***************************************************************************)
EXTENDS Integers, Sequences, FiniteSets, TLC

VARIABLES
    dom,            \* the document: element handle -> element
    components,     \* Dom.components: tag -> component class
    root,           \* Dom.root, the root Component object
    previous_tree,  \* Dom.previous_tree: "None" or "root" (a reference to Dom.root)
    stores,         \* the State objects: store id -> [initialized, store]; DomState is Dom.state
    nobj,           \* number of Python objects constructed (identities, uuids)
    pending,        \* promises of fetch() not yet resolved: the store of the mounted component
    log,            \* calls on the host DOM made by the last operation, in order
    trace,          \* store mutations and Dom.render entries of the last operation, in order
    before,         \* Dom.previous_tree, the stores and the document when the last pass began
    err,            \* the exception the last operation ended with, or NoError
    passes          \* number of Dom.render passes so far

vars == <<dom, components, root, previous_tree, stores, nobj, pending,
          log, trace, before, err, passes>>

-----------------------------------------------------------------------------
(* Bounds *)

MaxPasses == 3      \* render passes explored after construction
MaxMutations == 2   \* mutations a single handler performs
MaxDepth == 2       \* nested Dom.render calls before the interpreter's RecursionError
MaxTodos == 2       \* items a todo list holds
MaxPatches == 2     \* render passes explored when only one element is patched

-----------------------------------------------------------------------------
(* Values *)

NoElement == 0              \* None where a DOM handle is expected
NoContent == "<None>"       \* None where a string is expected
NoError == "ok"
NoNode == [cls |-> "None"]  \* None where a Component is expected
NoHandler == [self |-> 0, cls |-> "", state |-> 0, name |-> ""]

Last(s) == s[Len(s)]

RECURSIVE SetToSeq(_)
SetToSeq(S) ==
    IF S = {} THEN <<>>
    ELSE LET x == CHOOSE y \in S : TRUE IN <<x>> \o SetToSeq(S \ {x})

Without(s, x) == SelectSeq(s, LAMBDA y : y # x)

\* {**old, **new}
Merge(old, new) == new @@ old

RECURSIVE Pick(_, _)
Pick(f, keys) ==
    IF keys = <<>> THEN <<>>
    ELSE (Head(keys) :> f[Head(keys)]) @@ Pick(f, Tail(keys))

Restrict(f, S) == Pick(f, SetToSeq(S))

-----------------------------------------------------------------------------
(* The host DOM capability.  Every call is appended to the log.  A call on  *)
(* None raises AttributeError; once an exception is raised the rest of the  *)
(* operation is skipped.                                                    *)

Ok(w) == w.err = NoError

Raise(w, exc) == [w EXCEPT !.err = exc]

Entry(op, el, key, val, h) == [op |-> op, el |-> el, key |-> key, val |-> val, h |-> h]

Logged(w, op, el, key, val, h) == Append(w.log, Entry(op, el, key, val, h))

NewElement(tag) ==
    [tag |-> tag, attrs |-> <<>>, listeners |-> {}, text |-> "",
     kids |-> <<>>, parent |-> NoElement]

Detach(d, e) ==
    IF d[e].parent = NoElement THEN d
    ELSE [d EXCEPT ![d[e].parent].kids = Without(@, e), ![e].parent = NoElement]

createElement(w, tag) ==
    IF w.err # NoError THEN w
    ELSE [w EXCEPT !.dom = Append(@, NewElement(tag)),
                   !.log = Logged(w, "createElement", Len(w.dom) + 1, tag, "", NoHandler)]

setAttribute(w, e, key, val) ==
    IF w.err # NoError THEN w
    ELSE IF e = NoElement THEN Raise(w, "AttributeError")
    ELSE [w EXCEPT !.dom[e].attrs = (key :> val) @@ @,
                   !.log = Logged(w, "setAttribute", e, key, val, NoHandler)]

removeAttribute(w, e, key) ==
    IF w.err # NoError THEN w
    ELSE IF e = NoElement THEN Raise(w, "AttributeError")
    ELSE [w EXCEPT !.dom[e].attrs = Restrict(@, DOMAIN @ \ {key}),
                   !.log = Logged(w, "removeAttribute", e, key, "", NoHandler)]

addEventListener(w, e, event, h) ==
    IF w.err # NoError THEN w
    ELSE IF e = NoElement THEN Raise(w, "AttributeError")
    ELSE [w EXCEPT !.dom[e].listeners = @ \cup {<<event, h>>},
                   !.log = Logged(w, "addEventListener", e, event, "", h)]

removeEventListener(w, e, event, h) ==
    IF w.err # NoError THEN w
    ELSE IF e = NoElement THEN Raise(w, "AttributeError")
    ELSE [w EXCEPT !.dom[e].listeners = @ \ {<<event, h>>},
                   !.log = Logged(w, "removeEventListener", e, event, "", h)]

appendChild(w, p, e) ==
    IF w.err # NoError THEN w
    ELSE LET d == Detach(w.dom, e)
         IN [w EXCEPT !.dom = [d EXCEPT ![p].kids = Append(@, e), ![e].parent = p],
                      !.log = Logged(w, "appendChild", e, "", "", NoHandler)]

\* parent.appendChild(document.createTextNode(text))
appendText(w, e, text) ==
    IF w.err # NoError THEN w
    ELSE [w EXCEPT !.dom[e].text = @ \o text,
                   !.log = Logged(w, "appendText", e, "", text, NoHandler)]

\* element.remove()
remove(w, e) ==
    IF w.err # NoError THEN w
    ELSE IF e = NoElement THEN Raise(w, "AttributeError")
    ELSE [w EXCEPT !.dom = Detach(w.dom, e),
                   !.log = Logged(w, "remove", e, "", "", NoHandler)]

\* parent.removeChild(child)
removeChild(w, p, e) ==
    IF w.err # NoError THEN w
    ELSE [w EXCEPT !.dom = Detach(w.dom, e),
                   !.log = Logged(w, "removeChild", e, "", "", NoHandler)]

RECURSIVE DetachAll(_, _)
DetachAll(d, kids) ==
    IF kids = <<>> THEN d
    ELSE DetachAll([d EXCEPT ![Head(kids)].parent = NoElement], Tail(kids))

\* element.textContent = text: every child node is replaced by one text node
setTextContent(w, e, text) ==
    IF w.err # NoError THEN w
    ELSE IF e = NoElement THEN Raise(w, "AttributeError")
    ELSE [w EXCEPT
            !.dom = [DetachAll(@, @[e].kids) EXCEPT
                        ![e].kids = <<>>,
                        ![e].text = IF text = NoContent THEN "" ELSE text],
            !.log = Logged(w, "textContent", e, "", text, NoHandler)]

\* element.childNodes
childNodes(w, e) == IF e = NoElement THEN Raise(w, "AttributeError") ELSE w

-----------------------------------------------------------------------------
(* The markup pipeline: a rendered template parsed into element            *)
(* descriptors.  text is the string content of the element (NoContent when *)
(* it holds no string), kids its element children.                         *)

Tag(name, attrs, text, kids) == [name |-> name, attrs |-> attrs, text |-> text, kids |-> kids]

\* A string at the top level of a template (a bs4 NavigableString)
Text(text) == [name |-> "#text", attrs |-> <<>>, text |-> text, kids |-> <<>>]

\* isinstance(child, Tag)
IsTag(child) == child.name # "#text"

\* find_all(recursive=False): the children that are tags
find_all(nodes) == SelectSeq(nodes, IsTag)

\* Whitespace between tags of a template
WS == " "

\* bs4 Tag.string: the only child when it is a string, the string of the only
\* child when it is a tag, None otherwise
RECURSIVE String(_)
String(child) ==
    IF child.text # NoContent /\ child.kids = <<>> THEN child.text
    ELSE IF child.text = NoContent /\ Len(child.kids) = 1 THEN String(child.kids[1])
    ELSE NoContent

\* Attributes the parser yields as a list of tokens
IsList(key) == key \in {"class"}

RECURSIVE JoinSpace(_)
JoinSpace(value) ==
    IF value = <<>> THEN ""
    ELSE IF Len(value) = 1 THEN value[1]
    ELSE value[1] \o " " \o JoinSpace(Tail(value))

\* key.startswith("on:") and key[3:]
OnKeys == {"on:click", "on:input"}
StartsWithOn(key) == key \in OnKeys
EventOf(key) == IF key = "on:click" THEN "click" ELSE "input"

-----------------------------------------------------------------------------
(* Component classes *)

DomState == 0       \* the store id of Dom.state
MountPoint == 1     \* document.querySelector(selector)

ClassTag(cls) ==
    CASE cls = "Root" -> "main"
      [] cls = "TodoComponent" -> "todo-component"
      [] cls = "Counter" -> "my-counter"
      [] cls = "Page" -> "main"
      [] cls = "Mounter" -> "my-mounter"
      [] OTHER -> ""

initial_state(cls) ==
    CASE cls = "Counter" -> [count |-> 0]
      [] cls = "TodoComponent" -> [todolist |-> <<>>]
      [] OTHER -> <<>>

\* What getattr(component, name, default) finds
ComponentAttrs ==
    {"tag", "template", "css", "identifier", "dom", "element", "children", "content",
     "event_handlers", "attributes", "top_custom_component", "state",
     "get_element_by_id", "query_selector", "on_mount", "get_state", "set_state",
     "set_global_state", "get_global_state", "render_template", "render"}

HasAttr(cls, name) ==
    \/ name \in ComponentAttrs
    \/ cls = "Counter" /\ name \in {"increase", "decrease", "initial_state"}
    \/ cls = "TodoComponent" /\ name \in {"new_item", "remove_item", "clear_input_field",
                                          "toggle_done", "initial_state"}

\* test_app.Counter.template
CounterTemplate(b) ==
    << Tag("div", [class |-> <<"uk-margin-large">>], WS, <<
         Tag("p", <<>>, NoContent, <<
           Tag("span", <<>>, "The counter is at ", <<>>),
           Tag("span", [class |-> <<"counter", IF b.count < 0 THEN "red" ELSE "green">>],
               ToString(b.count), <<>>) >>),
         Tag("button", ("class" :> <<"uk-button", "uk-button-default", "uk-margin-right">>)
                       @@ ("on:click" :> "decrease"), " Decrease ", <<>>),
         Tag("button", ("class" :> <<"uk-button", "uk-button-default">>)
                       @@ ("on:click" :> "increase"), " Increase ", <<>>) >>) >>

\* test_app.TodoComponent.template
TodoItemMarkup(item) ==
    Tag("li", <<>>, WS, <<
      Tag("div", ("class" :> <<"uk-grid-small">>) @@ ("uk-grid" :> ""), WS, <<
        Tag("div", [class |-> <<"uk-width-3-4@s">>], WS, <<
          Tag("p", [style |-> IF item.is_done THEN "text-decoration: line-through;" ELSE ""],
              item.title, <<>>) >>),
        Tag("div", ("class" :> <<"uk-width-1-4@s", "uk-grid-small">>) @@ ("uk-grid" :> ""), WS, <<
          Tag("div", [class |-> <<"uk-width-1-2@s">>], WS, <<
            Tag("button", ("class" :> <<"uk-button", "uk-width-1-1">>)
                          @@ ("on:click" :> "toggle_done") @@ ("index" :> item.id),
                "Done", <<>>) >>),
          Tag("div", [class |-> <<"uk-width-1-2@s">>], WS, <<
            Tag("button", ("class" :> <<"uk-button", "uk-button-danger", "uk-width-1-1">>)
                          @@ ("on:click" :> "remove_item") @@ ("index" :> item.id),
                "Remove", <<>>) >>) >>) >>) >>)

TodoTemplate(b) ==
    << Tag("div", ("class" :> <<"uk-grid-small">>) @@ ("uk-grid" :> ""), WS, <<
         Tag("div", [class |-> <<"uk-width-3-4@s">>], WS, <<
           Tag("input", ("id" :> "todoInput") @@ ("class" :> <<"uk-input">>)
                        @@ ("type" :> "text") @@ ("placeholder" :> "Your todo item here"),
               NoContent, <<>>) >>),
         Tag("div", [class |-> <<"uk-width-1-4@s">>], WS, <<
           Tag("button", ("class" :> <<"uk-button", "uk-button-primary", "uk-width-1-1">>)
                         @@ ("on:click" :> "new_item"), "Add", <<>>) >>) >>),
       Tag("ul", [class |-> <<"uk-list", "uk-list-divider">>], WS,
           [i \in 1..Len(b.todolist) |-> TodoItemMarkup(b.todolist[i])]) >>

\* test_app.Root.template
RootTemplate(b) ==
    << Tag("div", [class |-> <<"uk-container">>], WS, <<
         Tag("h1", [class |-> <<"uk-margin-medium-bottom">>], "Counter examples", <<>>),
         Tag("my-counter", <<>>, NoContent, <<>>),
         Tag("hr", [class |-> <<"uk-divider-icon">>], NoContent, <<>>),
         Tag("h1", [class |-> <<"uk-margin-medium-bottom">>], "Todo app example", <<>>),
         Tag("todo-component", <<>>, NoContent, <<>>) >>) >>

\* An application whose root shows the markup selected by the binding "view"
\* (template "{{ view }}"); without the binding the template renders empty.
\* A view is [name, attrs]; the view "P" is one div with the attributes attrs.
View(v) ==
    CASE v.name = "A" -> << Tag("div", ("class" :> <<"a">>) @@ ("on:click" :> "on_mount"),
                                "one", <<>>) >>
      [] v.name = "B" -> << Tag("div", ("class" :> <<"b">>) @@ ("id" :> "x"), "one", <<>>),
                            Tag("my-counter", <<>>, NoContent, <<>>) >>
      [] v.name = "C" -> << Tag("my-counter", <<>>, NoContent, <<>>),
                            Tag("div", ("id" :> "x") @@ ("on:click" :> "missing"), "two", <<>>) >>
      [] v.name = "D" -> << Tag("p", <<>>, NoContent, <<
                              Tag("span", <<>>, "hi", <<>>) >>) >>
      [] v.name = "E" -> << Tag("p", <<>>, NoContent, <<
                              Tag("span", <<>>, "hi", <<>>),
                              Tag("span", <<>>, "yo", <<>>) >>) >>
      [] v.name = "F" -> << Tag("my-mounter", <<>>, NoContent, <<>>) >>
      [] v.name = "G" -> << Tag("div", ("id" :> "x"), "one", <<>>),
                            Text("stray"),
                            Tag("div", ("id" :> "y"), "two", <<>>) >>
      [] v.name = "P" -> << Tag("div", v.attrs, "one", <<>>) >>
      [] OTHER -> <<>>

Views == [name : {"A", "B", "C", "D", "E", "F", "G"}, attrs : {<<>>}]

\* The attribute maps of the view "P": every combination of an absent, a first
\* and a second value of id, class and on:click
Optional(key, values) == {<<>>} \cup {key :> x : x \in values}

PatchViews ==
    [name : {"P"},
     attrs : {a @@ c @@ h : a \in Optional("id", {"x", "y"}),
                            c \in Optional("class", {<<"a">>, <<"a", "b">>}),
                            h \in Optional("on:click", {"on_mount", "render", "missing"})}]

PageTemplate(b) == IF "view" \in DOMAIN b THEN View(b.view) ELSE <<>>

HasTemplate(cls) == cls \in {"Root", "TodoComponent", "Counter", "Page"}

\* Template(self.template).render(**state), parsed
Markup(self, b) ==
    CASE self.cls = "Counter" -> CounterTemplate(b)
      [] self.cls = "TodoComponent" -> TodoTemplate(b)
      [] self.cls = "Root" -> RootTemplate(b)
      [] self.cls = "Page" -> PageTemplate(b)
      [] OTHER -> self.template

-----------------------------------------------------------------------------
(* DictDiffer(current_dict, past_dict) *)

added(current_dict, past_dict) == DOMAIN current_dict \ DOMAIN past_dict

removed(current_dict, past_dict) == DOMAIN past_dict \ DOMAIN current_dict

\* A diff that finds no key changed
changed_none(current_dict, past_dict) == {}

\* A diff that takes every key of both maps for changed
changed_common(current_dict, past_dict) == DOMAIN current_dict \cap DOMAIN past_dict

changed(current_dict, past_dict) ==
    {o \in DOMAIN current_dict \cap DOMAIN past_dict : past_dict[o] # current_dict[o]}

-----------------------------------------------------------------------------
(* State, Component and Dom.  A Component is a record; the fields transferred *)
(* by render (identifier, element, state) are references.  A plain Component  *)
(* declares no initial_state and nothing writes to its store: it is the empty *)
(* mapping, and is not kept in stores.                                        *)

StoreOf(w, sid) == IF sid \in DOMAIN w.stores THEN w.stores[sid].store ELSE <<>>

\* A lookup of handlers and bindings on the node itself
Governor_self(self, gov) == [obj |-> self.obj, cls |-> self.cls, state |-> self.state]

\* The nearest custom component of a node: itself, or the one it was given
Governor(self, gov) ==
    IF self.top = self.obj
    THEN [obj |-> self.obj, cls |-> self.cls, state |-> self.state]
    ELSE gov

NoGovernor == [obj |-> 0, cls |-> "", state |-> 0]

RECURSIVE setitem(_, _, _, _), update(_, _, _, _), State(_, _, _), Component(_, _, _, _, _, _, _, _),
          create_each(_, _, _, _, _, _), create_children(_, _, _), render(_, _, _, _, _),
          DomRender(_)

Mutation(w, op, sid, key) ==
    [op |-> op, sid |-> sid, key |-> key, initialized |-> w.stores[sid].initialized]

\* A mutation of a populated store that does not render
notify_never(w, sid) == w

\* A store that renders while it is being populated
notify_always(w, sid) == DomRender(w)

\* self.dom.render(), when the store has been populated
notify(w, sid) == IF w.stores[sid].initialized THEN DomRender(w) ELSE w

\* State.__setitem__
setitem(w, sid, key, value) ==
    IF w.err # NoError THEN w
    ELSE notify([w EXCEPT !.stores[sid].store = (key :> value) @@ @,
                          !.trace = Append(@, Mutation(w, "set", sid, key))], sid)

\* State.__delitem__
delitem(w, sid, key) ==
    IF w.err # NoError THEN w
    ELSE IF key \notin DOMAIN w.stores[sid].store THEN Raise(w, "KeyError")
    ELSE notify([w EXCEPT !.stores[sid].store = Restrict(@, DOMAIN @ \ {key}),
                          !.trace = Append(@, Mutation(w, "del", sid, key))], sid)

\* MutableMapping.update: self[key] = value for every item
update(w, sid, items, keys) ==
    IF keys = <<>> THEN w
    ELSE update(setitem(w, sid, Head(keys), items[Head(keys)]), sid, items, Tail(keys))

populated(w, sid) == IF Ok(w) THEN [w EXCEPT !.stores[sid].initialized = TRUE] ELSE w

\* State.__init__
State(w, sid, items) ==
    populated(update([w EXCEPT !.stores = (sid :> [initialized |-> FALSE, store |-> <<>>]) @@ @],
                     sid, items, SetToSeq(DOMAIN items)),
              sid)

\* Component.__init__; tag and top are NoContent and 0 when not given
Component(w, cls, tag, content, event_handlers, attributes, template, top) ==
    [w |-> IF cls = "Component" THEN [w EXCEPT !.nobj = @ + 1]
           ELSE State([w EXCEPT !.nobj = @ + 1], w.nobj + 1, initial_state(cls)),
     self |-> [cls |-> cls,
               tag |-> IF tag # NoContent THEN tag ELSE ClassTag(cls),
               obj |-> w.nobj + 1,
               identifier |-> w.nobj + 1,
               element |-> NoElement,
               children |-> <<>>,
               content |-> content,
               event_handlers |-> event_handlers,
               attributes |-> attributes,
               state |-> w.nobj + 1,
               top |-> IF top = 0 THEN w.nobj + 1 ELSE top,
               template |-> IF HasTemplate(cls) THEN <<>> ELSE template]]

\* Component.render_template
render_template(w, self, gov) ==
    Markup(self, Merge(StoreOf(w, DomState), StoreOf(w, gov.state)))

\* A call the framework makes on the host DOM or on the component; arg is
\* the parent of appendChild and the store of on_mount
Do(op, el, key, val, h, arg) ==
    [op |-> op, el |-> el, key |-> key, val |-> val, h |-> h, arg |-> arg]

\* The call of self.on_mount() in _create_element
mounting(w, e, cls, state) ==
    [w EXCEPT !.log = Logged(w, "on_mount", e, cls, "", NoHandler),
              !.pending = IF cls = "TodoComponent" THEN @ \cup {state} ELSE @]

\* Component.on_mount: TodoComponent starts a fetch whose completion writes
\* to the store of the mounted component; Component.on_mount does nothing.
\* Mounter is a component whose on_mount is self.set_state("mounted", True).
on_mount(w, e, cls, state) ==
    IF cls = "Mounter"
    THEN setitem(mounting(w, e, cls, state), state, "mounted", TRUE)
    ELSE mounting(w, e, cls, state)

DomDo(w, c) ==
    CASE c.op = "createElement" -> createElement(w, c.key)
      [] c.op = "setAttribute" -> setAttribute(w, c.el, c.key, c.val)
      [] c.op = "removeAttribute" -> removeAttribute(w, c.el, c.key)
      [] c.op = "addEventListener" -> addEventListener(w, c.el, c.key, c.h)
      [] c.op = "removeEventListener" -> removeEventListener(w, c.el, c.key, c.h)
      [] c.op = "appendChild" -> appendChild(w, c.arg, c.el)
      [] c.op = "appendText" -> appendText(w, c.el, c.val)
      [] c.op = "childNodes" -> childNodes(w, c.el)
      [] c.op = "textContent" -> setTextContent(w, c.el, c.val)
      [] c.op = "on_mount" -> on_mount(w, c.el, c.key, c.arg)

\* The calls are made in order; an exception skips the rest
RECURSIVE perform(_, _)
perform(w, calls) ==
    IF w.err # NoError \/ calls = <<>> THEN w
    ELSE perform(DomDo(w, Head(calls)), Tail(calls))

\* Component._set_attribute
set_attribute(e, attribute, value) ==
    Do("setAttribute", e, attribute,
         IF IsList(attribute) THEN JoinSpace(value) ELSE value, NoHandler, 0)

set_attributes(e, attributes, keys) ==
    [i \in 1..Len(keys) |-> set_attribute(e, keys[i], attributes[keys[i]])]

add_listeners(e, event_handlers, keys) ==
    [i \in 1..Len(keys) |-> Do("addEventListener", e, keys[i], "", event_handlers[keys[i]], 0)]

remove_listeners(e, old, keys) ==
    [i \in 1..Len(keys) |-> Do("removeEventListener", e, keys[i], "", old[keys[i]], 0)]

RECURSIVE replace_listeners(_, _, _, _)
replace_listeners(e, old, new, keys) ==
    IF keys = <<>> THEN <<>>
    ELSE << Do("removeEventListener", e, Head(keys), "", old[Head(keys)], 0),
            Do("addEventListener", e, Head(keys), "", new[Head(keys)], 0) >>
         \o replace_listeners(e, old, new, Tail(keys))

remove_attributes(e, keys) ==
    [i \in 1..Len(keys) |-> Do("removeAttribute", e, keys[i], "", NoHandler, 0)]

\* Component._create_element
create_element(w, self, parent_element) ==
    [w |-> perform(w,
              << Do("createElement", Len(w.dom) + 1, self.tag, "", NoHandler, 0) >>
              \o (IF self.top = self.obj
                  THEN << Do("setAttribute", Len(w.dom) + 1, "identifier",
                               ToString(self.identifier), NoHandler, 0) >>
                  ELSE <<>>)
              \o set_attributes(Len(w.dom) + 1, self.attributes,
                                SetToSeq(DOMAIN self.attributes))
              \o (IF parent_element # NoElement
                  THEN << Do("appendChild", Len(w.dom) + 1, "", "", NoHandler,
                               parent_element) >>
                  ELSE <<>>)
              \o add_listeners(Len(w.dom) + 1, self.event_handlers,
                               SetToSeq(DOMAIN self.event_handlers))
              \o (IF self.content # NoContent
                  THEN << Do("appendText", Len(w.dom) + 1, "", self.content, NoHandler, 0) >>
                  ELSE <<>>)
              \o << Do("on_mount", Len(w.dom) + 1, self.cls, "", NoHandler, self.state) >>),
     self |-> [self EXCEPT !.element = Len(w.dom) + 1]]

\* Component._update_event_handlers
update_event_handlers(w, self, oldEvent_handlers) ==
    [w |-> perform(w,
              add_listeners(self.element, self.event_handlers,
                            SetToSeq(added(self.event_handlers, oldEvent_handlers)))
              \o replace_listeners(self.element, oldEvent_handlers, self.event_handlers,
                                   SetToSeq(changed(self.event_handlers, oldEvent_handlers)))
              \o remove_listeners(self.element, oldEvent_handlers,
                                  SetToSeq(removed(self.event_handlers, oldEvent_handlers)))),
     self |-> [self EXCEPT !.event_handlers = Merge(oldEvent_handlers, @)]]

\* Component._update_attributes
update_attributes(w, self, oldAttributes) ==
    [w |-> perform(w,
              set_attributes(self.element, self.attributes,
                             SetToSeq(added(self.attributes, oldAttributes)))
              \o set_attributes(self.element, self.attributes,
                                SetToSeq(changed(self.attributes, oldAttributes)))
              \o remove_attributes(self.element,
                                   SetToSeq(removed(self.attributes, oldAttributes)))),
     self |-> [self EXCEPT !.attributes = Merge(oldAttributes, @)]]

\* Component._update_content: the text nodes of the element are read, and
\* textContent is assigned when their text is not the content
update_content(w, self) ==
    perform(w,
        IF self.element = NoElement
        THEN << Do("childNodes", NoElement, "", "", NoHandler, 0) >>
        ELSE IF w.dom[self.element].text # (IF self.content = NoContent THEN "" ELSE self.content)
        THEN << Do("textContent", self.element, "", self.content, NoHandler, 0) >>
        ELSE <<>>)

\* The event handlers of a child descriptor: getattr on the governing
\* component, a new lambda when the name does not resolve
RECURSIVE event_handlers_of(_, _, _, _, _)
event_handlers_of(w, gov, attrs, keys, acc) ==
    IF keys = <<>> THEN [w |-> w, event_handlers |-> acc]
    ELSE IF HasAttr(gov.cls, attrs[Head(keys)])
    THEN event_handlers_of(w, gov, attrs, Tail(keys),
            (EventOf(Head(keys)) :> [self |-> gov.obj, cls |-> gov.cls,
                                     state |-> gov.state, name |-> attrs[Head(keys)]]) @@ acc)
    ELSE event_handlers_of([w EXCEPT !.nobj = @ + 1], gov, attrs, Tail(keys),
            (EventOf(Head(keys)) :> [self |-> w.nobj + 1, cls |-> "function",
                                     state |-> 0, name |-> "<lambda>"]) @@ acc)

\* A truncation that leaves the excess children in the document
remove_each_never(w, nodes) == w

RECURSIVE remove_each(_, _)
remove_each(w, nodes) ==
    IF w.err # NoError \/ nodes = <<>> THEN w
    ELSE remove_each(remove(w, Head(nodes).element), Tail(nodes))

RECURSIVE remove_element_children(_, _)
remove_element_children(w, e) ==
    IF w.err # NoError THEN w
    ELSE IF e = NoElement THEN Raise(w, "AttributeError")
    ELSE IF w.dom[e].kids = <<>> THEN w
    ELSE remove_element_children(removeChild(w, e, Last(w.dom[e].kids)), e)

\* Component._create_children: the component of one child of the template,
\* custom when the tag is registered
new_component(eh, child, gov) ==
    IF child.name \in DOMAIN eh.w.components
    THEN Component(eh.w, eh.w.components[child.name], NoContent, String(child),
                   eh.event_handlers,
                   Restrict(child.attrs, {k \in DOMAIN child.attrs : ~StartsWithOn(k)}),
                   child.kids, 0)
    ELSE Component(eh.w, "Component", child.name, String(child),
                   eh.event_handlers,
                   Restrict(child.attrs, {k \in DOMAIN child.attrs : ~StartsWithOn(k)}),
                   child.kids, gov.obj)

\* The child list a node commits, and its place in the list of its parent:
\* the children no template child replaces are removed; without template
\* children the element is emptied; new_children.append(new_component)
set_children(acc, self, n, siblings) ==
    IF acc.w.err # NoError THEN [w |-> acc.w, new_children |-> siblings]
    ELSE [w |-> IF n > 0
                THEN remove_each(acc.w, SubSeq(self.children, n + 1, Len(self.children)))
                ELSE remove_element_children(acc.w, self.element),
          new_children |-> Append(siblings, [self EXCEPT !.children = acc.new_children])]

\* A reconciliation that matches the items of a list from its end
previous_from_end(self, i) ==
    IF self.tag = "ul"
    THEN IF i > 1 /\ Len(self.children) > i - 2 THEN self.children[i - 1] ELSE NoNode
    ELSE IF Len(self.children) > i - 1 THEN self.children[i] ELSE NoNode

\* previous = self.children[i] if len(self.children) > i else None
previous_child(self, i) ==
    IF Len(self.children) > i - 1 THEN self.children[i] ELSE NoNode

\* Component._create_children: the loop over the children of the template,
\* each rendered against the previous child at its position
create_each(acc, self, gov, children, i, siblings) ==
    IF acc.w.err # NoError \/ i > Len(children)
    THEN set_children(acc, self, Len(children), siblings)
    ELSE IF ~IsTag(children[i])
    THEN [w |-> Raise(acc.w, "Exception"), new_children |-> siblings]
    ELSE create_each(
            render(new_component(
                       event_handlers_of(acc.w, gov, children[i].attrs,
                           SetToSeq({k \in DOMAIN children[i].attrs : StartsWithOn(k)}), <<>>),
                       children[i], gov),
                   previous_child(self, i),
                   self.element, gov, acc.new_children),
            self, gov, children, i + 1, siblings)

\* Component._create_children, and self.children = its result
create_children(s, gov, siblings) ==
    create_each([w |-> s.w, new_children |-> <<>>], s.self, Governor(s.self, gov),
                find_all(render_template(s.w, s.self, Governor(s.self, gov))), 1, siblings)

\* type(self) == type(previous_tree) and the class names agree
SameComponent(self, previous) == self.cls = previous.cls

\* An update in place that runs the mount hook
updated_content_mounting(a) ==
    [w |-> mounting(update_content(a.w, a.self), a.self.element, a.self.cls, a.self.state),
     self |-> a.self]

updated_content(a) == [w |-> update_content(a.w, a.self), self |-> a.self]

updated_attributes(h, previous) == update_attributes(h.w, h.self, previous.attributes)

\* Component.render, the branch that updates in place.  The State built by
\* __init__ is no longer referenced once previous_tree._state replaces it.
render_update(w, self, previous) ==
    updated_content(updated_attributes(
        update_event_handlers(
            IF self.state # previous.state
            THEN [w EXCEPT !.stores = Restrict(@, DOMAIN @ \ {self.state})]
            ELSE w,
            [self EXCEPT !.identifier = previous.identifier,
                         !.children = previous.children,
                         !.element = previous.element,
                         !.state = previous.state],
            previous.event_handlers),
        previous))

\* Component.render of the component c.self; the rendered node is appended
\* to siblings, the list its parent is building
render(c, previous, parent_element, gov, siblings) ==
    IF c.w.err # NoError THEN [w |-> c.w, new_children |-> siblings]
    ELSE create_children(
            IF previous = NoNode THEN create_element(c.w, c.self, parent_element)
            ELSE IF SameComponent(c.self, previous) THEN render_update(c.w, c.self, previous)
            ELSE c,
            gov, siblings)

TraceRender(op) == [op |-> op, sid |-> 0, key |-> "", initialized |-> TRUE]

\* Dom.render: the pass begins
enter(w) ==
    [w EXCEPT !.trace = Append(@, TraceRender("render")),
              !.passes = @ + 1,
              !.depth = @ + 1,
              !.log = <<>>,
              !.before = [tree |-> IF w.previous_tree = "None" THEN NoNode ELSE w.root,
                          stores |-> w.stores, dom |-> w.dom]]

\* Dom.render: self.previous_tree = the rendered root
commit(r) ==
    IF Ok(r.w)
    THEN [r.w EXCEPT !.root = r.new_children[1], !.previous_tree = "root", !.depth = @ - 1,
                     !.trace = Append(@, TraceRender("rendered"))]
    ELSE r.w

\* Dom.render.  A pass entered from within MaxDepth passes reaches the
\* recursion limit of the interpreter.
DomRender(w) ==
    IF w.err # NoError THEN w
    ELSE IF w.root = NoNode THEN Raise(w, "AttributeError")
    ELSE IF w.depth >= MaxDepth THEN Raise(enter(w), "RecursionError")
    ELSE commit(render([w |-> enter(w), self |-> w.root],
                       IF w.previous_tree = "None" THEN NoNode ELSE w.root,
                       MountPoint, NoGovernor, <<>>))

with_root(c) == [c.w EXCEPT !.root = c.self]

\* Dom.__init__: the registry, the root component, Dom.state, the first pass
DomInit(root_class, classes) ==
    DomRender(State(with_root(Component(
        [dom |-> <<NewElement("div")>>,
         components |-> [t \in {ClassTag(c) : c \in classes} |->
                           CHOOSE c \in classes : ClassTag(c) = t],
         root |-> NoNode, previous_tree |-> "None", stores |-> <<>>, nobj |-> 0,
         pending |-> {}, log |-> <<>>, trace |-> <<>>,
         before |-> [tree |-> NoNode, stores |-> <<>>, dom |-> <<>>],
         err |-> NoError, passes |-> 0, depth |-> 0],
        root_class, NoContent, NoContent, <<>>, <<>>, <<>>, 0)), DomState, <<>>))

-----------------------------------------------------------------------------
(* The state machine.  An operation starts from the current world with an  *)
(* empty trace and runs to its end, render passes included.                *)

World ==
    [dom |-> dom, components |-> components, root |-> root,
     previous_tree |-> previous_tree, stores |-> stores, nobj |-> nobj,
     pending |-> pending, log |-> <<>>, trace |-> <<>>, before |-> before,
     err |-> NoError, passes |-> passes, depth |-> 0]

Becomes(w) ==
    /\ dom' = w.dom
    /\ components' = w.components
    /\ root' = w.root
    /\ previous_tree' = w.previous_tree
    /\ stores' = w.stores
    /\ nobj' = w.nobj
    /\ pending' = w.pending
    /\ log' = w.log
    /\ trace' = w.trace
    /\ before' = w.before
    /\ err' = w.err
    /\ passes' = w.passes

Starts(w) ==
    /\ dom = w.dom
    /\ components = w.components
    /\ root = w.root
    /\ previous_tree = w.previous_tree
    /\ stores = w.stores
    /\ nobj = w.nobj
    /\ pending = w.pending
    /\ log = w.log
    /\ trace = <<>>
    /\ before = w.before
    /\ err = w.err
    /\ passes = 0

\* An element that is in the document
RECURSIVE Connected(_, _)
Connected(d, e) ==
    \/ e = MountPoint
    \/ e # NoElement /\ d[e].parent # NoElement /\ Connected(d, d[e].parent)

\* test_app.Counter.increase / decrease: self.state["count"] += 1 / -= 1
increase(w, h) == setitem(w, h.state, "count", StoreOf(w, h.state).count + 1)

decrease(w, h) == setitem(w, h.state, "count", StoreOf(w, h.state).count - 1)

\* test_app.TodoItem: the id is a new uuid
TodoItem(w, title, is_done) == [id |-> ToString(w.nobj + 1), title |-> title, is_done |-> is_done]

\* event.target.getAttribute("index")
Index(w, target) ==
    IF "index" \in DOMAIN w.dom[target].attrs THEN w.dom[target].attrs.index ELSE NoContent

\* test_app.TodoComponent.new_item; title is the value of the input field
new_item(w, h, title) ==
    IF title # ""
    THEN setitem([w EXCEPT !.nobj = @ + 1], h.state, "todolist",
                 <<TodoItem(w, title, FALSE)>> \o StoreOf(w, h.state).todolist)
    ELSE w

\* test_app.TodoComponent.remove_item
remove_item(w, h, target) ==
    setitem(w, h.state, "todolist",
            SelectSeq(StoreOf(w, h.state).todolist, LAMBDA item : item.id # Index(w, target)))

\* test_app.TodoComponent.toggle_done
toggle_done(w, h, target) ==
    LET todolist == StoreOf(w, h.state).todolist
    IN setitem(w, h.state, "todolist",
               [i \in DOMAIN todolist |->
                  IF todolist[i].id = Index(w, target)
                  THEN [todolist[i] EXCEPT !.is_done = ~@]
                  ELSE todolist[i]])

\* test_app.TodoComponent.on_mount.create_initial_todos: the first FetchLimit
\* items of the response, all done
FetchLimit == 2
Titles == <<"delectus aut autem", "quis ut nam facilis">>

create_initial_todos(w, sid, n) ==
    setitem([w EXCEPT !.nobj = @ + n], sid, "todolist",
            [i \in 1..n |-> [id |-> ToString(w.nobj + i), title |-> Titles[i], is_done |-> TRUE]])

\* The mutations a handler of the application performs on Dom.state
Mutations == [op : {"set"}, value : Views] \cup [op : {"del"}, value : {<<>>}]

RECURSIVE mutate(_, _)
mutate(w, ms) ==
    IF ms = <<>> THEN w
    ELSE mutate(IF Head(ms).op = "set" THEN setitem(w, DomState, "view", Head(ms).value)
                ELSE delitem(w, DomState, "view"),
                Tail(ms))

\* A handler that calls set_global_state / del on Dom.state, one or more times
Handler ==
    \E n \in 1..MaxMutations : \E ms \in [1..n -> Mutations] :
        /\ passes + n <= MaxPasses
        /\ Becomes(mutate(World, ms))

\* The method a listener is bound to, called with the event
Call(w, h, target, title) ==
    CASE h.name = "increase" -> increase(w, h)
      [] h.name = "decrease" -> decrease(w, h)
      [] h.name = "new_item" -> new_item(w, h, title)
      [] h.name = "remove_item" -> remove_item(w, h, target)
      [] h.name = "toggle_done" -> toggle_done(w, h, target)
      [] OTHER -> w

\* The browser delivers a click to a listener of an element of the document
Click ==
    /\ passes < MaxPasses
    /\ \E e \in {x \in DOMAIN dom : Connected(dom, x)} : \E l \in dom[e].listeners :
       \E title \in IF l[2].name = "new_item" THEN {"", "buy milk"} ELSE {""} :
          /\ l[1] = "click"
          /\ l[2].name \in {"increase", "decrease", "new_item", "remove_item", "toggle_done"}
          /\ l[2].name = "new_item" => Len(StoreOf(World, l[2].state).todolist) < MaxTodos
          /\ Becomes(Call(World, l[2], e, title))

\* The promise of fetch() resolves with a response of n items
FetchDone ==
    /\ passes < MaxPasses
    /\ \E sid \in pending : \E n \in 0..FetchLimit :
          Becomes(create_initial_todos([World EXCEPT !.pending = @ \ {sid}], sid, n))

\* The application calls Dom.render itself, once or twice in a row
RECURSIVE render_times(_, _)
render_times(w, n) == IF n = 0 THEN w ELSE render_times(DomRender(w), n - 1)

Render ==
    \E n \in 1..2 :
        /\ passes + n <= MaxPasses
        /\ Becomes(render_times(World, n))

\* The application shows one element and changes its attributes and handlers
Patch ==
    /\ passes < MaxPatches
    /\ \E v \in PatchViews : Becomes(setitem(World, DomState, "view", v))

Init == Starts(DomInit("Page", {"Page", "Counter", "Mounter"}))

Next == Handler \/ Click \/ Render

Spec == Init /\ [][Next]_vars

\* test_app
InitApp == Starts(DomInit("Root", {"Root", "TodoComponent", "Counter"}))

NextApp == Click \/ FetchDone

SpecApp == InitApp /\ [][NextApp]_vars

\* one element, patched
NextPatch == Patch \/ Render

SpecPatch == Init /\ [][NextPatch]_vars

-----------------------------------------------------------------------------
(* Properties.  They read the record of the last operation: trace, log and *)
(* before, the snapshot taken when its last render pass began.             *)

Min(a, b) == IF a < b THEN a ELSE b

Range(s) == {s[i] : i \in DOMAIN s}

\* The trace without the writes that populate a store under construction
Triggers == SelectSeq(trace, LAMBDA t : t.op \in {"render", "rendered"} \/ t.initialized)

IsMutation(t) == t.op \in {"set", "del"} /\ t.initialized

\* The last operation ended with a render pass that patched a previous tree
\* and committed its result
Completed ==
    /\ err = NoError
    /\ trace # <<>>
    /\ Last(trace).op = "rendered"
    /\ before.tree # NoNode

\* The last operation is a handler that mutated a store
ByStateChange == Completed /\ IsMutation(trace[1])

\* e is a or a descendant of a in the document d
RECURSIVE Under(_, _, _)
Under(d, e, a) ==
    \/ e = a
    \/ d[e].parent # NoElement /\ Under(d, d[e].parent, a)

\* The handle e kept its place in the document over the last pass
Kept(e) == e \in DOMAIN before.dom /\ dom[e].parent = before.dom[e].parent

-----------------------------------------------------------------------------
(* C1, C2: State *)

\* C1: every set and every successful delete on a populated store is followed
\* at once by an entry of Dom.render, and in an operation that begins with a
\* mutation every entry of Dom.render follows a mutation at once, so the passes
\* and the mutations correspond one to one, in order, and no pass is shared by
\* two mutations; when the operation returns without an exception every pass
\* it entered has been committed.
C1_MutationRenders ==
    LET T == Triggers
    IN /\ \A i \in 1..Len(T) :
            IsMutation(T[i]) => (i < Len(T) /\ T[i + 1].op = "render")
       /\ \A i \in 1..Len(T) :
            (T[i].op = "render" /\ IsMutation(T[1])) => (i > 1 /\ IsMutation(T[i - 1]))
       /\ err = NoError =>
            /\ Cardinality({i \in 1..Len(T) : T[i].op = "render"})
                 = Cardinality({i \in 1..Len(T) : T[i].op = "rendered"})
            /\ \A i \in 1..Len(T) :
                  T[i].op = "render" => (i < Len(T) /\ T[i + 1].op = "rendered")

\* A handler set a key and deleted it, and each mutation rendered
C1_Witness ==
    /\ err = NoError
    /\ Len(Triggers) = 6
    /\ [i \in 1..6 |-> Triggers[i].op] = <<"set", "render", "rendered", "del", "render", "rendered">>

\* C2: a write that populates a store under construction is not followed by an
\* entry of Dom.render, and every store of a state between operations has been
\* populated, so its next mutation renders.
C2_PopulationDoesNotRender ==
    /\ \A i \in 1..Len(trace) :
          (trace[i].op = "set" /\ ~trace[i].initialized) =>
             (i < Len(trace) => trace[i + 1].op # "render")
    /\ \A sid \in DOMAIN stores : stores[sid].initialized

\* A pass constructed a component with a declared initial state and committed
C2_Witness ==
    /\ err = NoError
    /\ \E i \in 1..Len(trace) : trace[i].op = "set" /\ ~trace[i].initialized /\ trace[i].key = "count"
    /\ Last(trace).op = "rendered"

-----------------------------------------------------------------------------
(* C3, C4, C5: reconciliation by position *)

\* Every child of new whose predecessor at its position has its type kept the
\* identifier, the handle and the place of the handle, and the store with its
\* contents; and so on below it
RECURSIVE Preserved(_, _)
Preserved(new, old) ==
    \A i \in 1..Min(Len(new.children), Len(old.children)) :
        SameComponent(new.children[i], old.children[i]) =>
            /\ new.children[i].identifier = old.children[i].identifier
            /\ new.children[i].element = old.children[i].element
            /\ new.children[i].element # NoElement => Kept(new.children[i].element)
            /\ new.children[i].state = old.children[i].state
            /\ StoreOf([stores |-> stores], new.children[i].state)
                 = StoreOf([stores |-> before.stores], old.children[i].state)
            /\ Preserved(new.children[i], old.children[i])

\* C3: across a pass triggered by a state change, a child whose type and
\* position are unchanged keeps its identifier, its DOM handle, attached where
\* it was, and its store with the same contents.
C3_IdentityPreserved == ByStateChange => Preserved(root, before.tree)

\* Every child of new whose predecessor at its position has another type got a
\* new handle under the handle of new and was mounted, and the handle of the
\* predecessor left the document
RECURSIVE Replaced(_, _)
Replaced(new, old) ==
    \A i \in 1..Min(Len(new.children), Len(old.children)) :
        IF SameComponent(new.children[i], old.children[i])
        THEN Replaced(new.children[i], old.children[i])
        ELSE /\ old.children[i].element # NoElement => ~Connected(dom, old.children[i].element)
             /\ new.children[i].element # NoElement
             /\ new.children[i].element \notin DOMAIN before.dom
             /\ dom[new.children[i].element].parent = new.element
             /\ \E c \in Range(log) : c.op = "on_mount" /\ c.el = new.children[i].element

\* C4: when the node at a position has a predecessor of another type, the
\* handle of the predecessor is detached, and the node gets a new handle under
\* its parent and is mounted.
C4_ReplacedOnTypeChange == Completed => Replaced(root, before.tree)

\* Of the previous children of every patched node that has fewer children than
\* before, exactly those beyond the new child list left the document; a node
\* without children has an empty handle
RECURSIVE Truncated(_, _)
Truncated(new, old) ==
    /\ Len(old.children) > Len(new.children) =>
          \A i \in 1..Len(old.children) :
             (old.children[i].element # NoElement
                /\ Connected(before.dom, old.children[i].element)) =>
                   IF i > Len(new.children)
                   THEN ~Connected(dom, old.children[i].element)
                   ELSE Kept(old.children[i].element)
    /\ (new.children = <<>> /\ new.element # NoElement) => dom[new.element].kids = <<>>
    /\ \A i \in 1..Min(Len(new.children), Len(old.children)) :
          SameComponent(new.children[i], old.children[i]) =>
             Truncated(new.children[i], old.children[i])

\* C5: when a node has fewer children than before, exactly the handles of the
\* previous children beyond the new list are detached and no handle at an
\* earlier position is; when it has none, its handle has no element child and
\* its child list is empty.
C5_Truncation == Completed => Truncated(root, before.tree)

-----------------------------------------------------------------------------
(* C6, C7: the patch of one element, under SpecPatch *)

\* The last pass patched the element of the view in place
Patched == Completed /\ before.tree.children # <<>> /\ root.children # <<>>

Declared == stores[DomState].store.view.attrs

OldAttributes == before.tree.children[1].attributes

NewAttributes == Restrict(Declared, {k \in DOMAIN Declared : ~StartsWithOn(k)})

OldHandlers == before.tree.children[1].event_handlers

NewHandlers ==
    Restrict(root.children[1].event_handlers,
             {EventOf(k) : k \in {x \in DOMAIN Declared : StartsWithOn(x)}})

Added(new, old) == {k \in DOMAIN new : k \notin DOMAIN old}

Changed(new, old) == {k \in DOMAIN new : k \in DOMAIN old /\ new[k] # old[k]}

Removed(new, old) == {k \in DOMAIN old : k \notin DOMAIN new}

\* The calls of one kind the last pass made on the patched element
Calls(op) == SelectSeq(log, LAMBDA c : c.op = op /\ c.el = root.children[1].element)

\* The calls of one kind were made once for each of the keys, and for no other
OncePerKey(op, keys) ==
    /\ Len(Calls(op)) = Cardinality(keys)
    /\ {c.key : c \in Range(Calls(op))} = keys

\* C6: the three key sets of a diff are the keys only in new, the keys in both
\* with different values and the keys only in old; they are pairwise disjoint;
\* the attributes added or changed are written with the new value and the
\* removed ones cleared; the handlers added are registered, the changed ones
\* unregistered and then registered, the removed ones unregistered; a key with
\* the same value in both maps causes no call.
C6_DiffCorrect ==
    Patched =>
      /\ added(NewAttributes, OldAttributes) = Added(NewAttributes, OldAttributes)
      /\ changed(NewAttributes, OldAttributes) = Changed(NewAttributes, OldAttributes)
      /\ removed(NewAttributes, OldAttributes) = Removed(NewAttributes, OldAttributes)
      /\ added(NewHandlers, OldHandlers) \cap changed(NewHandlers, OldHandlers) = {}
      /\ added(NewHandlers, OldHandlers) \cap removed(NewHandlers, OldHandlers) = {}
      /\ changed(NewHandlers, OldHandlers) \cap removed(NewHandlers, OldHandlers) = {}
      /\ added(NewAttributes, OldAttributes) \cap changed(NewAttributes, OldAttributes) = {}
      /\ added(NewAttributes, OldAttributes) \cap removed(NewAttributes, OldAttributes) = {}
      /\ changed(NewAttributes, OldAttributes) \cap removed(NewAttributes, OldAttributes) = {}
      /\ OncePerKey("setAttribute", Added(NewAttributes, OldAttributes)
                                      \cup Changed(NewAttributes, OldAttributes))
      /\ \A c \in Range(Calls("setAttribute")) :
            c.val = IF IsList(c.key) THEN JoinSpace(NewAttributes[c.key])
                    ELSE NewAttributes[c.key]
      /\ OncePerKey("removeAttribute", Removed(NewAttributes, OldAttributes))
      /\ OncePerKey("addEventListener", Added(NewHandlers, OldHandlers)
                                          \cup Changed(NewHandlers, OldHandlers))
      /\ \A c \in Range(Calls("addEventListener")) : c.h = NewHandlers[c.key]
      /\ OncePerKey("removeEventListener", Changed(NewHandlers, OldHandlers)
                                             \cup Removed(NewHandlers, OldHandlers))
      /\ \A c \in Range(Calls("removeEventListener")) : c.h = OldHandlers[c.key]
      /\ \A i, j \in 1..Len(log) :
            (log[i].op = "addEventListener" /\ log[j].op = "removeEventListener"
               /\ log[i].key = log[j].key) => j < i
      /\ Calls("textContent") = <<>>

\* A patch added one attribute, changed another and removed a handler
C6_Witness ==
    /\ Patched
    /\ Added(NewAttributes, OldAttributes) # {}
    /\ Changed(NewAttributes, OldAttributes) # {}
    /\ Removed(NewHandlers, OldHandlers) # {}

\* C7: after an in-place update the attribute map kept on the committed node
\* is the declared map, and the handler map kept has the declared events only.
C7_PostPatchEqualsNew ==
    Patched =>
      /\ root.children[1].attributes = NewAttributes
      /\ DOMAIN root.children[1].event_handlers = DOMAIN NewHandlers

-----------------------------------------------------------------------------
(* C8: rendering twice *)

\* The last operation called Dom.render twice and nothing else
RenderedTwice ==
    /\ err = NoError
    /\ [i \in 1..Len(Triggers) |-> Triggers[i].op] = <<"render", "rendered", "render", "rendered">>

\* C8: the second of two passes with no mutation between them writes or clears
\* no attribute, writes no text and registers or unregisters no listener.
C8_IdempotentRerender ==
    RenderedTwice =>
      \A c \in Range(log) :
         c.op \notin {"setAttribute", "removeAttribute", "textContent", "appendText",
                      "addEventListener", "removeEventListener"}

-----------------------------------------------------------------------------
(* C9, C10: the todo list of test_app, under SpecApp *)

TodoNode(tree) == tree.children[1].children[5]

\* The node of the ul element
Ul(tree) == TodoNode(tree).children[2]

\* The item a list-item node shows: the index attribute of its Done button
ItemId(li) == li.children[1].children[2].children[1].children[1].attributes.index

ItemIds(tree) == [i \in 1..Len(Ul(tree).children) |-> ItemId(Ul(tree).children[i])]

TodoList == stores[TodoNode(root).state].store.todolist

SetTodoList == trace # <<>> /\ trace[1].op = "set" /\ trace[1].key = "todolist" /\ Completed

\* The last operation put one new item before the items shown
Prepended ==
    /\ SetTodoList
    /\ Len(TodoList) = Len(ItemIds(before.tree)) + 1
    /\ \A i \in 1..Len(ItemIds(before.tree)) : TodoList[i + 1].id = ItemIds(before.tree)[i]

\* The last operation took the k-th of the items shown out of the list
RemovedAt(k) ==
    /\ SetTodoList
    /\ k \in 1..Len(ItemIds(before.tree))
    /\ [i \in 1..Len(TodoList) |-> TodoList[i].id]
         = SubSeq(ItemIds(before.tree), 1, k - 1)
             \o SubSeq(ItemIds(before.tree), k + 1, Len(ItemIds(before.tree)))

\* The handles the last pass created
Created == {c.el : c \in {x \in Range(log) : x.op = "createElement"}}

\* The handles the last pass took out of the document
Detached == {e \in DOMAIN before.dom : Connected(before.dom, e) /\ ~Connected(dom, e)}

\* C9 as stated: the list-item subtree created when an item is prepended is
\* the one at child position 0 of the list.
C9_FreshSubtreeAtFront ==
    Prepended =>
      /\ Ul(root).children[1].element \in Created
      /\ Cardinality({c \in Range(log) : c.op = "createElement" /\ c.key = "li"}) = 1

\* C9 amended: when an item is prepended to a list of n items, the pass creates
\* exactly one list-item subtree, with a new identifier and a new handle, and
\* it is the one at child position n, the last; the nodes at positions
\* 0..n-1 keep their identifiers and handles and are patched in place.
C9_FreshSubtreeAtEnd ==
    Prepended =>
      LET n == Len(Ul(before.tree).children)
      IN /\ Len(Ul(root).children) = n + 1
         /\ \A i \in 1..n :
               /\ Ul(root).children[i].element = Ul(before.tree).children[i].element
               /\ Ul(root).children[i].identifier = Ul(before.tree).children[i].identifier
               /\ Ul(root).children[i].element \notin Created
         /\ Ul(root).children[n + 1].element \in Created
         /\ Ul(root).children[n + 1].element \notin DOMAIN before.dom
         /\ \A i \in 1..n :
               Ul(root).children[n + 1].identifier # Ul(before.tree).children[i].identifier
         /\ dom[Ul(root).children[n + 1].element].parent = Ul(root).element
         /\ Cardinality({c \in Range(log) : c.op = "createElement" /\ c.key = "li"}) = 1
         /\ \A e \in Created : Under(dom, e, Ul(root).children[n + 1].element)

\* An item was prepended to a list that showed an item
C9_Witness == Prepended /\ Len(Ul(before.tree).children) >= 1

\* C10: when one of n items is filtered out, the pass detaches exactly the
\* list-item subtree at position n-1, and the list items at positions 0..n-2
\* keep their handles, attached to the list.
C10_TodoRemove ==
    \A k \in 1..MaxTodos + 1 :
      RemovedAt(k) =>
        LET n == Len(Ul(before.tree).children)
        IN /\ Len(Ul(root).children) = n - 1
           /\ \A i \in 1..(n - 1) :
                 /\ Ul(root).children[i].element = Ul(before.tree).children[i].element
                 /\ Kept(Ul(root).children[i].element)
           /\ dom[Ul(before.tree).children[n].element].parent = NoElement
           /\ Detached = {e \in DOMAIN before.dom :
                            Under(before.dom, e, Ul(before.tree).children[n].element)}

\* The first of two items was removed
C10_Witness == RemovedAt(1) /\ Len(Ul(before.tree).children) = 2

-----------------------------------------------------------------------------
(* C11, C12: the counter of test_app, under SpecApp *)

CounterNode(tree) == tree.children[1].children[2]

\* The node of the span that shows the count
CounterSpan(tree) == CounterNode(tree).children[1].children[1].children[2]

Count == stores[CounterNode(root).state].store.count

\* The calls that change an attribute, the text or a listener of an element
Mutating(c) ==
    c.op \in {"setAttribute", "removeAttribute", "textContent", "appendText",
              "addEventListener", "removeEventListener"}

\* The last operation is one write of the count shown as "0", to n
CountSet(n) ==
    /\ Completed
    /\ trace[1].op = "set" /\ trace[1].key = "count"
    /\ CounterSpan(before.tree).content = "0"
    /\ Count = n

\* C11: from count = 0 the increase handler sets count to 1 and makes one
\* render pass, and the only call of that pass that changes an attribute, a
\* text or a listener is the write of "1" to the text of the counter span.
C11_CounterIncrement ==
    CountSet(1) =>
      /\ [i \in 1..Len(Triggers) |-> Triggers[i].op] = <<"set", "render", "rendered">>
      /\ \E i \in 1..Len(log) : log[i].op = "textContent"
      /\ \A i \in 1..Len(log) :
            Mutating(log[i]) =>
               /\ log[i].op = "textContent"
               /\ log[i].el = CounterSpan(root).element
               /\ log[i].val = "1"

\* The attributes the template of the counter declares for the span
SpanDeclared ==
    CounterTemplate(stores[CounterNode(root).state].store)[1].kids[1].kids[2].attrs

\* C12: from count = 0 one call of the decrease handler leaves count = -1, and
\* in its render pass the attribute diff of the counter span is changed =
\* {class}, from "counter green" to "counter red", with added and removed empty:
\* the class is written once and no attribute of the span is cleared.
C12_CounterNegative ==
    CountSet(-1) =>
      /\ changed(SpanDeclared, CounterSpan(before.tree).attributes) = {"class"}
      /\ added(SpanDeclared, CounterSpan(before.tree).attributes) = {}
      /\ removed(SpanDeclared, CounterSpan(before.tree).attributes) = {}
      /\ CounterSpan(before.tree).attributes.class = <<"counter", "green">>
      /\ SpanDeclared.class = <<"counter", "red">>
      /\ CounterSpan(root).attributes = SpanDeclared
      /\ SelectSeq(log, LAMBDA c : c.el = CounterSpan(root).element
                                    /\ c.op \in {"setAttribute", "removeAttribute"})
           = << Entry("setAttribute", CounterSpan(root).element, "class",
                      "counter red", NoHandler) >>
      /\ dom[CounterSpan(root).element].attrs = [class |-> "counter red"]

\* The decrease handler ran once from count = 0
C12_Witness == CountSet(-1) /\ dom[CounterSpan(root).element].text = "-1"

-----------------------------------------------------------------------------
(* C13: the mount hook *)

\* The places in the log where on_mount ran for the element e
Mounts(e) == {i \in 1..Len(log) : log[i].op = "on_mount" /\ log[i].el = e}

\* C13: for every element a pass creates, on_mount runs exactly once, after the
\* element is built and before any call for another element (so before the
\* children are reconciled); on_mount never runs for an element that existed
\* when the pass began, so a node updated in place is not mounted again.
C13_MountedOnce ==
    /\ \A i \in 1..Len(log) :
          log[i].op = "createElement" =>
             /\ Cardinality(Mounts(log[i].el)) = 1
             /\ \A j \in Mounts(log[i].el) :
                   j > i /\ \A k \in i..j : log[k].el = log[i].el
    /\ \A j \in 1..Len(log) :
          log[j].op = "on_mount" =>
             /\ log[j].el \notin DOMAIN before.dom
             /\ \E i \in 1..(j - 1) : log[i].op = "createElement" /\ log[i].el = log[j].el

\* A pass updated the first child of the root in place and mounted a second
C13_Witness ==
    /\ Completed
    /\ Len(root.children) = 2
    /\ root.children[1].element \in DOMAIN before.dom
    /\ root.children[2].element # NoElement
    /\ root.children[2].element \notin DOMAIN before.dom
    /\ Mounts(root.children[2].element) # {}

-----------------------------------------------------------------------------
(* C14: passes do not overlap *)

\* The entries and ends of the render passes of the last operation
Passes == SelectSeq(trace, LAMBDA t : t.op \in {"render", "rendered"})

\* C14: Dom.render is never entered while a pass is in progress: between two
\* entries of Dom.render in one operation the first pass has ended.
C14_PassesNeverOverlap ==
    \A i \in 1..(Len(Passes) - 1) :
        Passes[i].op = "render" => Passes[i + 1].op = "rendered"

-----------------------------------------------------------------------------
(* C15, C16: event bindings and the registry *)

\* The nearest custom component of a committed node, g being that of its parent
Nearest(node, g) ==
    IF node.cls = "Component" THEN g
    ELSE [obj |-> node.obj, cls |-> node.cls, state |-> node.state]

\* The descriptors the template of a committed node renders now
Descriptors(node, g) ==
    find_all(Markup(node, Merge(StoreOf([stores |-> stores], DomState),
                                StoreOf([stores |-> stores], g.state))))

\* The handler a child node keeps for a binding of its descriptor is the
\* method of that name of g when g has it, and a function otherwise
BoundTo(child, descriptor, g) ==
    \A k \in DOMAIN descriptor.attrs :
        StartsWithOn(k) =>
           /\ EventOf(k) \in DOMAIN child.event_handlers
           /\ IF HasAttr(g.cls, descriptor.attrs[k])
              THEN child.event_handlers[EventOf(k)]
                     = [self |-> g.obj, cls |-> g.cls, state |-> g.state,
                        name |-> descriptor.attrs[k]]
              ELSE child.event_handlers[EventOf(k)].cls = "function"

\* Every binding below node is bound to the nearest custom component of the
\* node whose template declares it
RECURSIVE Bound(_, _)
Bound(node, g) ==
    \A i \in 1..Len(node.children) :
        /\ BoundTo(node.children[i], Descriptors(node, g)[i], g)
        /\ Bound(node.children[i], Nearest(node.children[i], g))

\* The last pass rendered the counter and a div with an unknown handler name
\* where no node or the same nodes were
ShowsUnknownHandler ==
    /\ trace # <<>>
    /\ "view" \in DOMAIN stores[DomState].store
    /\ stores[DomState].store.view.name = "C"
    /\ before.tree # NoNode
    /\ \/ before.tree.children = <<>>
       \/ /\ Len(before.tree.children) = 2
          /\ before.tree.children[1].cls = "Counter"
          /\ before.tree.children[1].element # NoElement

ClassOf(descriptor) ==
    IF descriptor.name \in DOMAIN components THEN components[descriptor.name]
    ELSE "Component"

\* Every node below node has the class the registry gives its descriptor; a
\* node of a registered class governs itself and has a store; a passthrough
\* node has the tag of its descriptor and is governed by g, the nearest custom
\* component above it, whose store binds its template
RECURSIVE Dispatched(_, _)
Dispatched(node, g) ==
    /\ Len(node.children) = Len(Descriptors(node, g))
    /\ \A i \in 1..Len(node.children) :
          /\ node.children[i].cls = ClassOf(Descriptors(node, g)[i])
          /\ node.children[i].content = String(Descriptors(node, g)[i])
          /\ IF Descriptors(node, g)[i].name \in DOMAIN components
             THEN /\ node.children[i].top = node.children[i].obj
                  /\ node.children[i].state \in DOMAIN stores
                  /\ node.children[i].state # g.state
             ELSE /\ node.children[i].tag = Descriptors(node, g)[i].name
                  /\ node.children[i].top = g.obj
                  /\ node.children[i].state \notin DOMAIN stores
          /\ Dispatched(node.children[i], Nearest(node.children[i], g))

\* The root shows descriptors of unregistered tags only
OnlyUnregistered ==
    /\ "view" \in DOMAIN stores[DomState].store
    /\ \A d \in Range(find_all(View(stores[DomState].store.view))) :
          d.name \notin DOMAIN components

\* C16: after a completed pass every node has the class its descriptor's tag
\* is registered with, governs itself and has its own store, or else is a
\* generic Component governed by the nearest custom component above it in the
\* committed tree, whose store binds its template; and an operation that
\* renders unregistered tags only ends without an exception.
C16_RegistryDispatch ==
    /\ (err = NoError /\ trace # <<>> /\ Last(trace).op = "rendered") =>
          Dispatched(root, Nearest(root, NoGovernor))
    /\ (trace # <<>> /\ OnlyUnregistered) => err = NoError

-----------------------------------------------------------------------------
(* C17, C18: failures of a pass *)

\* The last operation rendered a template with a string at its top level
StrayText ==
    /\ trace # <<>>
    /\ \E i \in 1..Len(trace) : trace[i].op = "render"
    /\ "view" \in DOMAIN stores[DomState].store
    /\ \E d \in Range(View(stores[DomState].store.view)) : ~IsTag(d)

\* C17: a pass whose template yields a top-level node that is not an element
\* is aborted with a structural error that reaches the caller of Dom.render:
\* the operation ends with that exception, the pass is not committed, and the
\* calls made for the siblings before the node stay in effect.
C17_StructuralFailure ==
    StrayText =>
      /\ err = "Exception"
      /\ Last(trace).op # "rendered"
      /\ \E c \in Range(log) : c.op \in {"createElement", "setAttribute", "textContent"}

\* A pass of the last operation was entered from within another
Nested ==
    \E i \in 1..(Len(Passes) - 1) : Passes[i].op = "render" /\ Passes[i + 1].op = "render"

\* C18: every pass that Dom.render starts ends normally and commits its tree:
\* an operation whose passes follow one another ends with its last pass
\* committed and without an exception from it.
C18_PassRunsToCompletion ==
    (Passes # <<>> /\ ~Nested) =>
       /\ Last(Passes).op = "rendered"
       /\ err # "AttributeError"

-----------------------------------------------------------------------------
(* C19, C20: content and correspondence *)

DeclaredContent(node) == IF node.content = NoContent THEN "" ELSE node.content

\* The last pass assigned the text of the element e
Overwritten(e) == \E c \in Range(log) : c.op = "textContent" /\ c.el = e

\* The element children e had when the pass began are still its children,
\* but for those the reconciliation of the children removed
ChildrenLeft(e) ==
    \A k \in Range(before.dom[e].kids) :
        \/ dom[k].parent = e
        \/ \E c \in Range(log) : c.op \in {"remove", "removeChild"} /\ c.el = k

\* For every node below new that was updated in place: its text was assigned
\* exactly if it was not the declared content, it is the declared content
\* now, and the element children were left in place
RECURSIVE ContentDiffed(_, _)
ContentDiffed(new, old) ==
    \A i \in 1..Min(Len(new.children), Len(old.children)) :
        (SameComponent(new.children[i], old.children[i])
           /\ new.children[i].element \in DOMAIN before.dom) =>
              /\ Overwritten(new.children[i].element)
                   <=> before.dom[new.children[i].element].text
                         # DeclaredContent(new.children[i])
              /\ dom[new.children[i].element].text = DeclaredContent(new.children[i])
              /\ ChildrenLeft(new.children[i].element)
              /\ ContentDiffed(new.children[i], old.children[i])

\* C19: on an update in place the text of the handle is assigned if and only
\* if its direct text differs from the declared content (the empty string when
\* none is declared); afterwards the direct text is the declared content and
\* the element children of the handle are where they were.
C19_ContentDiff == (Completed /\ ~Nested) => ContentDiffed(root, before.tree)


\* The committed nodes below node have a handle each, and the element children
\* of a handle are the handles of the committed children of its node, in order
RECURSIVE Corresponds(_)
Corresponds(node) ==
    /\ node.element # NoElement
    /\ node.element \in DOMAIN dom
    /\ dom[node.element].kids = [i \in 1..Len(node.children) |-> node.children[i].element]
    /\ \A i \in 1..Len(node.children) : Corresponds(node.children[i])

\* C20: after every pass that completed, every committed node has a handle,
\* and the element children of that handle are exactly the handles of the
\* committed children of the node, in the same order.
C20_Correspondence == (err = NoError /\ previous_tree = "root") => Corresponds(root)


-----------------------------------------------------------------------------
(* C21: the attributes of the document and of the descriptors *)

\* The attributes a descriptor declares, as setAttribute writes them
DeclaredAttributes(descriptor) ==
    [k \in {x \in DOMAIN descriptor.attrs : ~StartsWithOn(x)} |->
        IF IsList(k) THEN JoinSpace(descriptor.attrs[k]) ELSE descriptor.attrs[k]]

\* The attributes of the element e but for the identifier the framework sets
OwnAttributes(e) == Restrict(dom[e].attrs, DOMAIN dom[e].attrs \ {"identifier"})

\* Every node below new that the last pass updated in place carries on its
\* element the attributes its descriptor declares
RECURSIVE Agrees(_, _, _)
Agrees(new, old, g) ==
    \A i \in 1..Min(Len(new.children), Len(old.children)) :
        (SameComponent(new.children[i], old.children[i])
           /\ new.children[i].element # NoElement) =>
              /\ OwnAttributes(new.children[i].element)
                   = DeclaredAttributes(Descriptors(new, g)[i])
              /\ Agrees(new.children[i], old.children[i], Nearest(new.children[i], g))

\* C21: after every pass that completed, the attributes on the handle of each
\* node that was updated in place, the identifier aside, are the attributes
\* its descriptor declares in this pass, with their values; an attribute that
\* an earlier pass removed and that is declared again with its former value
\* is on the handle again.
C21_AttributesAgree ==
    (Completed /\ ~Nested) => Agrees(root, before.tree, Nearest(root, NoGovernor))

====
